---- MODULE Spec2Model ----
(***************************************************************************)
(* A model of hopscotch_map (src/src/hopscotch_map.h): the bucket array    *)
(* with its per-bucket neighborhood bitmap, the overflow list, the         *)
(* hop-closer displacement, rehash and erase.                              *)
(*                                                                         *)
(* A bucket's m_neighborhood_infos word is modelled by its three parts:    *)
(* bit 0 (a value is stored) as the field `occupied`, bit 1 as the field   *)
(* `overflow`, and the bits from the third on as the set `neighbors` of    *)
(* the offsets whose bit is set.  Bucket indices are the source's          *)
(* (0-based); the overflow list is a sequence (1-based).                   *)
(* max_load_factor is a float in the source; the model keeps it in tenths  *)
(* (9 stands for 0.9f) and computes floor and ceil exactly.                *)
(*                                                                         *)
(* Spec runs every public modifier on tables of up to RequestedBuckets     *)
(* buckets with neighborhoods of 1 and 2 and both rehash_internal          *)
(* variants; SpecGrowth only inserts, into a table that doubles once;      *)
(* SpecLoad adds the max_load_factor setter to the operations that grow a  *)
(* table; SpecLookup adds find, count and at.                              *)
(***************************************************************************)
EXTENDS Integers, Sequences, FiniteSets, TLC

\* ---------------------------------------------------------------- bounds
NumKeys == 4
NumValues == 2
\* the largest bucket_count() a table grows to
MaxBucketCount == 16
\* the largest argument given to the constructor, rehash and reserve
MaxRequest == 7
\* the keys of the runs that grow a table by inserting
NumGrowthKeys == 8

\* ------------------------------------------------------ program constants
GrowthFactorNum == 2
GrowthFactorDen == 1
DEFAULT_INIT_BUCKETS_SIZE == 16
MAX_LINEAR_PROBE_SEARCH_EMPTY_BUCKET == 4096
DEFAULT_MAX_LOAD_FACTOR == 9
LoadFactorDen == 10

Keys == 0..(NumKeys - 1)
Values == 0..(NumValues - 1)
\* T() of operator[]: the value-initialised mapped value
DefaultValue == 0

NoKV == <<>>

Min(a, b) == IF a < b THEN a ELSE b
Max(a, b) == IF a > b THEN a ELSE b
CeilDiv(a, b) == (a + b - 1) \div b

VARIABLES
    m_buckets,             \* function 0..size-1 -> bucket
    m_overflow_elements,   \* sequence of <<key, value>>
    m_nb_elements,
    m_max_load_factor,     \* in tenths
    m_load_threshold,
    m_hash,                \* the user's hash function, [Keys -> Nat]
    NeighborhoodSize,      \* the template parameter NeighborhoodSize
    nothrow_move,          \* is_nothrow_move_constructible<value_type>
    abs,                   \* the abstract insert-if-absent map (history)
    last                   \* the last public operation and what it returned

vars == <<m_buckets, m_overflow_elements, m_nb_elements, m_max_load_factor,
          m_load_threshold, m_hash, NeighborhoodSize, nothrow_move, abs, last>>

\* ------------------------------------------------------ hopscotch_bucket
EmptyBucket == [occupied |-> FALSE, overflow |-> FALSE, neighbors |-> {}, kv |-> NoKV]

get_neighborhood_infos(b) == b.neighbors
set_overflow(b, has) == [b EXCEPT !.overflow = has]
has_overflow(b) == b.overflow
is_empty(b) == ~b.occupied
set_key_value(b, kv) == [b EXCEPT !.kv = kv, !.occupied = TRUE]
remove_key_value(b) == IF is_empty(b) THEN b ELSE [b EXCEPT !.kv = NoKV, !.occupied = FALSE]
toggle_neighbor_presence(b, i) ==
    [b EXCEPT !.neighbors = IF i \in @ THEN @ \ {i} ELSE @ \cup {i}]
check_neighbor_presence(b, i) == i \in b.neighbors
bucket_clear(b) == EmptyBucket

\* ----------------------------------------------------------- the map value
\* A map value: the fields of hopscotch_map, plus `ev`, the record of what
\* the running operation did (rehashes, displacements, failed assertions).
size(m) == Cardinality(DOMAIN m.buckets)
bucket_count(m) == size(m) - NeighborhoodSize + 1
is_power_of_two(v) == v # 0 /\ \E e \in 0..v : 2^e = v

RECURSIVE round_up_from(_, _)
round_up_from(power, value) ==
    IF power < value THEN round_up_from(power * 2, value) ELSE power
\* a faulty round_up_to_power_of_two: the value is returned as it is
round_up_to_power_of_two_keeps_value(value) == value

round_up_to_power_of_two(value) == round_up_from(1, value)

Hash(k) == m_hash[k]
\* a faulty bucket_for_hash: the hash is reduced modulo the length of the
\* bucket array, padding included
bucket_for_hash_whole_array(hash, nb_buckets) ==
    hash % (nb_buckets + NeighborhoodSize - 1)

bucket_for_hash2(hash, nb_buckets) == hash % nb_buckets
bucket_for_hash(m, hash) == bucket_for_hash2(hash, bucket_count(m))
\* a faulty get_expand_size: the table is rebuilt with the bucket count it has
get_expand_size_keeps_count(m) == bucket_count(m)

get_expand_size(m) == CeilDiv(bucket_count(m) * GrowthFactorNum, GrowthFactorDen)

load_threshold(nb_buckets, ml) == (nb_buckets * ml) \div LoadFactorDen

NewMap(cnt, ml, ev) ==
    LET nb == round_up_to_power_of_two(cnt)
    IN [buckets |-> [i \in 0..(nb + NeighborhoodSize - 2) |-> EmptyBucket],
        overflow |-> <<>>,
        nb |-> 0,
        mlf |-> ml,
        thr |-> load_threshold(nb, ml),
        ev |-> ev,
        steps |-> 0, fail_at |-> 0, moved |-> {}]

This == [buckets |-> m_buckets, overflow |-> m_overflow_elements,
         nb |-> m_nb_elements, mlf |-> m_max_load_factor,
         thr |-> m_load_threshold, ev |-> {},
         steps |-> 0, fail_at |-> 0, moved |-> {}]

\* ------------------------------------------------------------- exceptions
\* The steps of an operation that can throw are numbered as they are
\* reached: the allocations (a bucket array, an overflow node) and, for a
\* value_type whose constructors may throw, the constructions of a pair.
\* `steps` counts the ones that succeeded and step number `fail_at` throws;
\* none throws when fail_at is 0.  `moved` holds the buckets of *this whose
\* pair a move constructor has taken its value from and which were left in
\* place: the state of such a pair is unspecified.
throws(m) == m.fail_at = m.steps + 1
thrown(m) == "throw" \in m.ev
throw(m) == [m EXCEPT !.ev = @ \cup {"throw"}]
allocated(m) == [m EXCEPT !.steps = @ + 1]
construct_throws(m) == ~nothrow_move /\ throws(m)
constructed(m) == IF nothrow_move THEN m ELSE [m EXCEPT !.steps = @ + 1]

\* --------------------------------------------------------------- iterators
\* A hopscotch_iterator is (m_buckets_iterator, m_buckets_end_iterator,
\* m_overflow_iterator); the end cursor is always m_buckets.end(), so the
\* model keeps the bucket cursor (size(m) is m_buckets.end()) and the overflow
\* cursor (Len + 1 is m_overflow_elements.end()).
Iter(b, o) == [bucket |-> b, ovf |-> o]
end(m) == Iter(size(m), Len(m.overflow) + 1)
overflow_begin == 1

get_first_non_empty_buckets_iterator(m) ==
    LET occ == {i \in DOMAIN m.buckets : ~is_empty(m.buckets[i])}
    IN IF occ = {} THEN size(m) ELSE CHOOSE i \in occ : \A j \in occ : i <= j

begin(m) == Iter(get_first_non_empty_buckets_iterator(m), overflow_begin)

\* operator++
iter_next(m, it) ==
    IF it.bucket = size(m) THEN Iter(it.bucket, it.ovf + 1)
    ELSE LET later == {i \in DOMAIN m.buckets : i > it.bucket /\ ~is_empty(m.buckets[i])}
         IN Iter(IF later = {} THEN size(m) ELSE CHOOSE i \in later : \A j \in later : i <= j,
                 it.ovf)

\* operator*
iter_deref(m, it) ==
    IF it.bucket # size(m) THEN m.buckets[it.bucket].kv ELSE m.overflow[it.ovf]

\* it.value() = v: the mapped value of the entry `it` is on is assigned
value_assign(m, it, v) ==
    IF it.bucket # size(m)
    THEN [m EXCEPT !.buckets[it.bucket].kv = <<@[1], v>>]
    ELSE [m EXCEPT !.overflow[it.ovf] = <<@[1], v>>]

\* ------------------------------------------------------------------ lookup
\* The offsets of the bitmap are visited from the least significant bit; the
\* bucket of a set bit is compared when it holds a value.
find_in_buckets(m, key, ib) ==
    LET hits == {o \in get_neighborhood_infos(m.buckets[ib]) :
                    /\ ib + o \in DOMAIN m.buckets
                    /\ ~is_empty(m.buckets[ib + o])
                    /\ m.buckets[ib + o].kv[1] = key}
    IN IF hits = {} THEN size(m)
       ELSE ib + (CHOOSE o \in hits : \A p \in hits : o <= p)

\* std::find_if over the overflow list
find_in_overflow(m, key) ==
    LET hits == {i \in 1..Len(m.overflow) : m.overflow[i][1] = key}
    IN IF hits = {} THEN Len(m.overflow) + 1
       ELSE CHOOSE i \in hits : \A j \in hits : i <= j

\* a faulty find_internal: the overflow list is never searched
find_internal_skips_overflow(m, key, ib) ==
    LET it == find_in_buckets(m, key, ib)
    IN IF it # size(m) THEN Iter(it, overflow_begin) ELSE end(m)

find_internal(m, key, ib) ==
    LET it == find_in_buckets(m, key, ib)
    IN IF it # size(m) THEN Iter(it, overflow_begin)
       ELSE IF ~has_overflow(m.buckets[ib]) THEN end(m)
       ELSE Iter(size(m), find_in_overflow(m, key))

find(m, key) == find_internal(m, key, bucket_for_hash(m, Hash(key)))
count(m, key) == IF find(m, key) = end(m) THEN 0 ELSE 1

\* a faulty lookup: an entry found in the overflow list is moved to its front
looked_up_moves_to_front(m, key) ==
    LET it == find(m, key)
    IN IF it # end(m) /\ it.bucket = size(m)
       THEN [m EXCEPT !.overflow = <<m.overflow[it.ovf]>>
                                   \o SubSeq(@, 1, it.ovf - 1)
                                   \o SubSeq(@, it.ovf + 1, Len(@))]
       ELSE m

\* *this after find(key), count(key) or at(key): they are const, or call
\* only const members, and write to no member
looked_up(m, key) == m

\* a faulty at: a key that is absent is inserted with T(), as operator[] does
at_inserts(m, key) ==
    LET it_find == find(m, key)
        home == bucket_for_hash(m, Hash(key))
    IN IF it_find = end(m)
       THEN [m |-> [m EXCEPT !.overflow = Append(@, <<key, DefaultValue>>),
                             !.buckets[home] = set_overflow(@, TRUE),
                             !.nb = @ + 1],
             out_of_range |-> FALSE,
             it |-> Iter(size(m), Len(m.overflow) + 1)]
       ELSE [m |-> m, out_of_range |-> FALSE, it |-> it_find]

\* at(key): throws std::out_of_range when find returns end(), else returns
\* it_find->second
at(m, key) ==
    LET it_find == find(m, key)
    IN [m |-> looked_up(m, key), out_of_range |-> it_find = end(m), it |-> it_find]

\* ------------------------------------------------------------- hop engine
\* a faulty find_empty_bucket: the probe starts one bucket after ibucket_start
find_empty_bucket_after_start(m, ibucket_start) ==
    LET limit == Min(ibucket_start + MAX_LINEAR_PROBE_SEARCH_EMPTY_BUCKET, size(m))
        free == {i \in (ibucket_start + 1)..(limit - 1) : is_empty(m.buckets[i])}
    IN IF free = {} THEN size(m) ELSE CHOOSE i \in free : \A j \in free : i <= j

\* a faulty find_empty_bucket: the last empty bucket of the probe is returned
find_empty_bucket_last(m, ibucket_start) ==
    LET limit == Min(ibucket_start + MAX_LINEAR_PROBE_SEARCH_EMPTY_BUCKET, size(m))
        free == {i \in ibucket_start..(limit - 1) : is_empty(m.buckets[i])}
    IN IF free = {} THEN size(m) ELSE CHOOSE i \in free : \A j \in free : i >= j

find_empty_bucket(m, ibucket_start) ==
    LET limit == Min(ibucket_start + MAX_LINEAR_PROBE_SEARCH_EMPTY_BUCKET, size(m))
        free == {i \in ibucket_start..(limit - 1) : is_empty(m.buckets[i])}
    IN IF free = {} THEN size(m) ELSE CHOOSE i \in free : \A j \in free : i <= j

\* a faulty insert_in_bucket: the new pair takes the slot of the nearest entry
\* of its home, and that entry goes to the empty bucket
insert_in_bucket_takes_nearest(m, kv, ibucket_empty, ibucket_for_hash) ==
    LET near == {o \in get_neighborhood_infos(m.buckets[ibucket_for_hash]) :
                    ibucket_for_hash + o < ibucket_empty}
        first == ibucket_for_hash + (CHOOSE o \in near : \A q \in near : o <= q)
        b1 == [m.buckets EXCEPT
                  ![ibucket_empty] =
                      set_key_value(@, IF near = {} THEN kv ELSE m.buckets[first].kv)]
        b2 == IF near = {} THEN b1 ELSE [b1 EXCEPT ![first] = set_key_value(@, kv)]
        b3 == [b2 EXCEPT ![ibucket_for_hash] =
                  toggle_neighbor_presence(@, ibucket_empty - ibucket_for_hash)]
    IN [m EXCEPT !.buckets = b3, !.nb = @ + 1]

insert_in_bucket(m, kv, ibucket_empty, ibucket_for_hash) ==
    LET b1 == [m.buckets EXCEPT ![ibucket_empty] = set_key_value(@, kv)]
        b2 == [b1 EXCEPT ![ibucket_for_hash] =
                  toggle_neighbor_presence(@, ibucket_empty - ibucket_for_hash)]
    IN IF construct_throws(m) THEN throw(m)
       ELSE [constructed(m) EXCEPT !.buckets = b2, !.nb = @ + 1]

\* The pairs <<to_check, to_swap - to_check>> the two loops would stop at.
swap_candidates(m, e) ==
    {p \in ((e - NeighborhoodSize + 1)..(e - 1)) \X (0..(NeighborhoodSize - 1)) :
        /\ p[1] \in DOMAIN m.buckets
        /\ p[2] \in get_neighborhood_infos(m.buckets[p[1]])
        /\ p[1] + p[2] < e}

\* a faulty swap_empty_bucket_closer: of the lowest candidate home, the
\* entry of the highest neighborhood bit below e is moved
swap_empty_bucket_closer_highest_bit(m, e) ==
    LET cands == swap_candidates(m, e)
    IN IF cands = {} THEN [ok |-> FALSE, m |-> m, e |-> e]
       ELSE LET p == CHOOSE q \in cands : \A r \in cands :
                        q[1] < r[1] \/ (q[1] = r[1] /\ q[2] >= r[2])
                to_check == p[1]
                to_swap == p[1] + p[2]
                b1 == [m.buckets EXCEPT
                          ![e] = set_key_value(@, m.buckets[to_swap].kv),
                          ![to_swap] = remove_key_value(@)]
                b2 == [b1 EXCEPT ![to_check] = toggle_neighbor_presence(@, e - to_check)]
                b3 == [b2 EXCEPT ![to_check] = toggle_neighbor_presence(@, to_swap - to_check)]
            IN [ok |-> TRUE,
                m |-> [m EXCEPT !.buckets = b3, !.ev = @ \cup {"displace"}],
                e |-> to_swap]

swap_empty_bucket_closer(m, e) ==
    LET cands == swap_candidates(m, e)
    IN IF cands = {} THEN [ok |-> FALSE, m |-> m, e |-> e]
       ELSE IF construct_throws(m) THEN [ok |-> FALSE, m |-> throw(m), e |-> e]
       ELSE LET p == CHOOSE q \in cands : \A r \in cands :
                        q[1] < r[1] \/ (q[1] = r[1] /\ q[2] <= r[2])
                to_check == p[1]
                to_swap == p[1] + p[2]
                \* swap_key_value_with_empty_bucket
                b1 == [m.buckets EXCEPT
                          ![e] = IF is_empty(m.buckets[to_swap]) THEN @
                                 ELSE set_key_value(@, m.buckets[to_swap].kv),
                          ![to_swap] = remove_key_value(@)]
                b2 == [b1 EXCEPT ![to_check] = toggle_neighbor_presence(@, e - to_check)]
                b3 == [b2 EXCEPT ![to_check] = toggle_neighbor_presence(@, to_swap - to_check)]
            IN [ok |-> TRUE,
                m |-> [constructed(m) EXCEPT !.buckets = b3, !.ev = @ \cup {"displace"}],
                e |-> to_swap]

\* The do ... while(swap_empty_bucket_closer(ibucket_empty)) loop of
\* insert_internal: ok when the empty bucket came within the neighborhood.
RECURSIVE hop_loop(_, _, _)
hop_loop(m, e, ibucket_for_hash) ==
    IF e - ibucket_for_hash < NeighborhoodSize THEN [ok |-> TRUE, m |-> m, e |-> e]
    ELSE LET s == swap_empty_bucket_closer(m, e)
         IN IF s.ok THEN hop_loop(s.m, s.e, ibucket_for_hash)
            ELSE [ok |-> FALSE, m |-> m, e |-> e]

neighborhood_range(m, i) ==
    {j \in DOMAIN m.buckets : j >= i /\ j - i < NeighborhoodSize}

\* a faulty will_neighborhood_change_on_rehash: the answer is always no
will_neighborhood_change_never(m, i) == FALSE

will_neighborhood_change_on_rehash(m, i) ==
    \E j \in neighborhood_range(m, i) :
        /\ ~is_empty(m.buckets[j])
        /\ bucket_for_hash(m, Hash(m.buckets[j].kv[1]))
              # bucket_for_hash2(Hash(m.buckets[j].kv[1]), get_expand_size(m))

\* ------------------------------------------------------- insert and rehash
\* The bucket array cannot grow past MaxBucketCount in the model: an operation
\* that would need more marks its result "cap" and is not taken.
capped(m) == "cap" \in m.ev

\* the operation goes no further: the cap was met or an exception is on its way
stopped(m) == capped(m) \/ thrown(m)

InsertResult(m, it, inserted) == [m |-> m, it |-> it, inserted |-> inserted]

\* for(const auto & key_value : *this): the occupied buckets in index order,
\* then the overflow list
RECURSIVE elements_from(_, _)
elements_from(m, it) ==
    IF it = end(m) THEN <<>>
    ELSE <<iter_deref(m, it)>> \o elements_from(m, iter_next(m, it))
elements(m) == elements_from(m, begin(m))

\* for(hopscotch_bucket & bucket : m_buckets) if(!bucket.is_empty())
RECURSIVE bucket_elements_from(_, _)
bucket_elements_from(m, i) ==
    IF i >= size(m) THEN <<>>
    ELSE IF is_empty(m.buckets[i]) THEN bucket_elements_from(m, i + 1)
    ELSE <<m.buckets[i].kv>> \o bucket_elements_from(m, i + 1)
bucket_elements(m) == bucket_elements_from(m, 0)

RECURSIVE insert_internal(_, _, _), rehash_internal(_, _), reinsert_all(_, _)

\* tmp_map.insert_internal(key_value, tmp_map.bucket_for_hash(...)) for each
\* element of kvs in turn
reinsert_all(tmp, kvs) ==
    IF kvs = <<>> \/ stopped(tmp) THEN tmp
    ELSE reinsert_all(
            insert_internal(tmp, Head(kvs), bucket_for_hash(tmp, Hash(Head(kvs)[1]))).m,
            Tail(kvs))

\* The buckets of m whose pair was moved into tmp_map when the insertion of
\* a later one throws: the first n occupied ones, which are not emptied
\* (tmp_map, destroyed by the exception, holds what was moved).
moved_buckets(m, n) ==
    {i \in DOMAIN m.buckets :
        /\ ~is_empty(m.buckets[i])
        /\ Cardinality({j \in DOMAIN m.buckets : j < i /\ ~is_empty(m.buckets[j])}) < n}

\* hopscotch_map tmp_map(count, ...): the bucket array is allocated
tmp_map(m, cnt) ==
    [NewMap(cnt, m.mlf, m.ev \cup {"rehash"}) EXCEPT
        !.steps = m.steps + 1, !.fail_at = m.fail_at]

\* The nothrow-move variant from its assert on: tmp is tmp_map after the
\* bucket elements were moved into it.  m_overflow_elements.swap hands
\* tmp_map's own list to the old map, which is destroyed after
\* std::swap(*this, tmp_map).
rehash_take_overflow(m, tmp) ==
    IF capped(tmp) THEN [m EXCEPT !.ev = @ \cup {"cap"}]
    ELSE IF thrown(tmp)
    THEN [m EXCEPT !.ev = @ \cup {"throw"}, !.steps = tmp.steps,
                   !.moved = @ \cup moved_buckets(m, tmp.nb)]
    ELSE IF m.overflow = <<>>
    THEN [tmp EXCEPT !.ev = IF tmp.overflow = <<>> THEN @
                            ELSE @ \cup {"assert_tmp_overflow_empty"}]
    ELSE [tmp EXCEPT
            !.overflow = m.overflow,
            !.nb = @ + Len(m.overflow),
            !.buckets = [i \in DOMAIN @ |->
                IF \E n \in 1..Len(m.overflow) :
                      bucket_for_hash(tmp, Hash(m.overflow[n][1])) = i
                THEN set_overflow(@[i], TRUE) ELSE @[i]],
            !.ev = IF tmp.overflow = <<>> THEN @
                   ELSE @ \cup {"assert_tmp_overflow_empty"}]

\* the std::is_nothrow_move_constructible variant
rehash_internal_nothrow(m, cnt) ==
    rehash_take_overflow(m,
        reinsert_all(tmp_map(m, cnt), bucket_elements(m)))

\* std::swap(*this, tmp_map)
rehash_swap(m, tmp) ==
    IF capped(tmp) THEN [m EXCEPT !.ev = @ \cup {"cap"}]
    ELSE IF thrown(tmp) THEN [m EXCEPT !.ev = @ \cup {"throw"}, !.steps = tmp.steps]
    ELSE tmp

\* the variant for a value_type whose move constructor may throw
rehash_internal_fallible(m, cnt) ==
    rehash_swap(m, reinsert_all(tmp_map(m, cnt), elements(m)))

rehash_internal(m, cnt) ==
    IF round_up_to_power_of_two(cnt) > MaxBucketCount
    THEN [m EXCEPT !.ev = @ \cup {"cap"}]
    ELSE IF throws(m) THEN throw(m)
    ELSE IF nothrow_move THEN rehash_internal_nothrow(m, cnt)
    ELSE rehash_internal_fallible(m, cnt)

\* insert_internal(P&&, std::size_t) in the stages of its control flow.
\* After rehash_internal: ibucket_for_hash is computed anew and
\* insert_internal starts again.
insert_restart(m, kv) ==
    IF stopped(m) THEN InsertResult(m, end(m), FALSE)
    ELSE insert_internal(m, kv, bucket_for_hash(m, Hash(kv[1])))

\* rehash_internal(get_expand_size()); return insert_internal(...)
insert_rehash(m, kv) == insert_restart(rehash_internal(m, get_expand_size(m)), kv)

\* a faulty insert_in_overflow: the overflow flag of the home is left as it was
insert_in_overflow_keeps_flag(m, kv, ibucket_for_hash) ==
    [m EXCEPT !.overflow = Append(@, kv), !.nb = @ + 1, !.ev = @ \cup {"overflow"}]

\* m_overflow_elements.push_back, set_overflow(true), m_nb_elements++
insert_in_overflow(m, kv, ibucket_for_hash) ==
    IF throws(m) THEN throw(m) ELSE
    [allocated(m) EXCEPT
        !.overflow = Append(@, kv),
        !.buckets[ibucket_for_hash] = set_overflow(@, TRUE),
        !.nb = @ + 1,
        \* the assert of will_neighborhood_change_on_rehash, whose loop ran to its end
        !.ev = (IF \A j \in neighborhood_range(m, ibucket_for_hash) : ~is_empty(m.buckets[j])
                THEN @ ELSE @ \cup {"assert_not_empty"}) \cup {"overflow"}]

\* std::make_pair(iterator, true), unless the insertion threw
inserted_at(m, it) ==
    IF thrown(m) THEN InsertResult(m, end(m), FALSE) ELSE InsertResult(m, it, TRUE)

\* after the do-while loop: h is what hop_loop returned
insert_after_hop(h, kv, ibucket_for_hash) ==
    IF thrown(h.m) THEN InsertResult(h.m, end(h.m), FALSE)
    ELSE IF h.ok
    THEN inserted_at(insert_in_bucket(h.m, kv, h.e, ibucket_for_hash),
                     Iter(h.e, overflow_begin))
    ELSE IF ~will_neighborhood_change_on_rehash(h.m, ibucket_for_hash)
    THEN inserted_at(insert_in_overflow(h.m, kv, ibucket_for_hash),
                     Iter(size(h.m), Len(h.m.overflow) + 1))
    ELSE insert_rehash(h.m, kv)

\* after find_empty_bucket
insert_at_empty(m, kv, ibucket_for_hash, ibucket_empty) ==
    IF ibucket_empty < size(m)
    THEN insert_after_hop(hop_loop(m, ibucket_empty, ibucket_for_hash), kv, ibucket_for_hash)
    ELSE insert_rehash(m, kv)

\* after the load check
insert_probe(m, kv, ibucket_for_hash) ==
    insert_at_empty(m, kv, ibucket_for_hash, find_empty_bucket(m, ibucket_for_hash))

\* after the rehash_internal of the load check
insert_after_expand(m, kv) ==
    IF stopped(m) THEN InsertResult(m, end(m), FALSE)
    ELSE insert_probe(m, kv, bucket_for_hash(m, Hash(kv[1])))

insert_internal(m, kv, ibucket_for_hash) ==
    IF (m.nb + 1) > m.thr
    THEN insert_after_expand(rehash_internal(m, get_expand_size(m)), kv)
    ELSE insert_probe(m, kv, ibucket_for_hash)

\* the presence check common to insert_internal(P&&) and try_emplace_internal
insert_if_absent(m, kv, ibucket_for_hash, it_find) ==
    IF it_find # end(m) THEN InsertResult(m, it_find, FALSE)
    ELSE insert_internal(m, kv, ibucket_for_hash)

\* a faulty insert_internal(P&&): the value of a key that is present is overwritten
insert_lookup_assigns(m, kv) ==
    IF find(m, kv[1]) = end(m) THEN insert_internal(m, kv, bucket_for_hash(m, Hash(kv[1])))
    ELSE IF find(m, kv[1]).bucket # size(m)
    THEN InsertResult([m EXCEPT !.buckets[find(m, kv[1]).bucket].kv = kv],
                      find(m, kv[1]), FALSE)
    ELSE InsertResult([m EXCEPT !.overflow[find(m, kv[1]).ovf] = kv],
                      find(m, kv[1]), FALSE)

\* insert_internal(P&&): the presence check, then the insertion
insert_lookup(m, kv) ==
    insert_if_absent(m, kv, bucket_for_hash(m, Hash(kv[1])),
                     find_internal(m, kv[1], bucket_for_hash(m, Hash(kv[1]))))

\* try_emplace_internal builds the pair only when the key is absent
try_emplace_internal(m, key, value) ==
    insert_if_absent(m, <<key, value>>, bucket_for_hash(m, Hash(key)),
                     find_internal(m, key, bucket_for_hash(m, Hash(key))))

\* ------------------------------------------------------------------- erase
find_in_overflow_from_bucket(m, search_start, original_bucket_for_hash) ==
    LET hits == {i \in search_start..Len(m.overflow) :
                    bucket_for_hash(m, Hash(m.overflow[i][1])) = original_bucket_for_hash}
    IN IF hits = {} THEN Len(m.overflow) + 1
       ELSE CHOOSE i \in hits : \A j \in hits : i <= j

remove_at(seq, i) == SubSeq(seq, 1, i - 1) \o SubSeq(seq, i + 1, Len(seq))

\* a faulty erase_from_overflow: the first node of the list is erased
erase_from_overflow_front(m, pos, ibucket_for_hash) ==
    LET m1 == [m EXCEPT !.overflow = Tail(@), !.nb = @ - 1]
    IN IF find_in_overflow_from_bucket(m1, overflow_begin, ibucket_for_hash)
             = Len(m1.overflow) + 1
       THEN [m1 EXCEPT !.buckets[ibucket_for_hash] = set_overflow(@, FALSE)]
       ELSE m1

\* The list's erase returns the node after the erased one, which takes its index.
erase_from_overflow(m, pos, ibucket_for_hash) ==
    LET m1 == [m EXCEPT !.overflow = remove_at(@, pos), !.nb = @ - 1,
                        !.ev = IF has_overflow(m.buckets[ibucket_for_hash]) THEN @
                               ELSE @ \cup {"assert_has_overflow"}]
    IN IF find_in_overflow_from_bucket(m1, overflow_begin, ibucket_for_hash)
             = Len(m1.overflow) + 1
       THEN [m1 EXCEPT !.buckets[ibucket_for_hash] = set_overflow(@, FALSE)]
       ELSE m1

\* a faulty erase_from_bucket: the freed bucket is filled again with the entry
\* of the same home that lies furthest behind it
erase_from_bucket_shifts_back(m, pos, ibucket_for_hash) ==
    LET b1 == [m.buckets EXCEPT ![pos] = remove_key_value(@)]
        b2 == [b1 EXCEPT ![ibucket_for_hash] =
                  toggle_neighbor_presence(@, pos - ibucket_for_hash)]
        behind == {o \in get_neighborhood_infos(b2[ibucket_for_hash]) :
                      ibucket_for_hash + o > pos}
        far == CHOOSE o \in behind : \A q \in behind : q <= o
        b3 == [b2 EXCEPT ![pos] = set_key_value(@, b2[ibucket_for_hash + far].kv),
                         ![ibucket_for_hash + far] = remove_key_value(@)]
        b4 == [b3 EXCEPT ![ibucket_for_hash] =
                  [@ EXCEPT !.neighbors = (@ \ {far}) \cup {pos - ibucket_for_hash}]]
    IN [m EXCEPT !.buckets = IF behind = {} THEN b2 ELSE b4, !.nb = @ - 1]

\* a faulty erase_from_bucket: the neighborhood bit of the home bucket stays set
erase_from_bucket_keeps_bit(m, pos, ibucket_for_hash) ==
    [m EXCEPT !.buckets[pos] = remove_key_value(@), !.nb = @ - 1]

erase_from_bucket(m, pos, ibucket_for_hash) ==
    LET b1 == [m.buckets EXCEPT ![pos] = remove_key_value(@)]
        b2 == [b1 EXCEPT ![ibucket_for_hash] =
                  toggle_neighbor_presence(@, pos - ibucket_for_hash)]
    IN [m EXCEPT !.buckets = b2, !.nb = @ - 1]

\* a faulty erase(const key_type&): the overflow list is not looked at
erase_key_buckets_only(m, key) ==
    LET ib == bucket_for_hash(m, Hash(key))
        it_find == find_in_buckets(m, key, ib)
    IN IF it_find # size(m) THEN [m |-> erase_from_bucket(m, it_find, ib), ret |-> 1]
       ELSE [m |-> m, ret |-> 0]

\* erase(const key_type&)
erase_key(m, key) ==
    LET ib == bucket_for_hash(m, Hash(key))
        it_find == find_in_buckets(m, key, ib)
        it_overflow == find_in_overflow(m, key)
    IN IF it_find # size(m) THEN [m |-> erase_from_bucket(m, it_find, ib), ret |-> 1]
       ELSE IF has_overflow(m.buckets[ib]) /\ it_overflow # Len(m.overflow) + 1
       THEN [m |-> erase_from_overflow(m, it_overflow, ib), ret |-> 1]
       ELSE [m |-> m, ret |-> 0]

\* erase(const_iterator pos)
erase_pos(m, pos) ==
    LET ib == bucket_for_hash(m, Hash(iter_deref(m, pos)[1]))
    IN IF pos.bucket # size(m)
       THEN LET m1 == erase_from_bucket(m, pos.bucket, ib)
            IN [m |-> m1, it |-> iter_next(m1, Iter(pos.bucket, overflow_begin))]
       ELSE LET m1 == erase_from_overflow(m, pos.ovf, ib)
            IN [m |-> m1, it |-> Iter(size(m1), pos.ovf)]

\* erase(const_iterator first, const_iterator last).  A list iterator stays
\* on its node while nodes before it are erased: the index of `last` in the
\* overflow list drops by one with each overflow node erased before it.
RECURSIVE erase_loop(_, _, _)
erase_loop(m, to_delete, last_it) ==
    IF to_delete = last_it THEN [m |-> m, it |-> to_delete]
    ELSE LET r == erase_pos(m, to_delete)
         IN erase_loop(r.m, r.it,
                       IF to_delete.bucket = size(m)
                       THEN Iter(last_it.bucket, last_it.ovf - 1) ELSE last_it)

erase_range(m, first, last_it) ==
    IF first = last_it THEN [m |-> m, it |-> first]
    ELSE erase_loop(m, first, last_it)

clear(m) ==
    [m EXCEPT !.buckets = [i \in DOMAIN @ |-> bucket_clear(@[i])],
              !.overflow = <<>>,
              !.nb = 0]

\* a faulty rehash: the requested count is taken as it is
rehash_ignores_size(m, cnt) == rehash_internal(m, cnt)

\* rehash(size_type count): std::ceil(size() / max_load_factor())
rehash(m, cnt) ==
    rehash_internal(m, Max(cnt, CeilDiv(m.nb * LoadFactorDen, m.mlf)))

reserve(m, cnt) == rehash(m, CeilDiv(cnt * LoadFactorDen, m.mlf))

\* max_load_factor(float ml): the threshold is computed anew, nothing is rehashed
max_load_factor(m, ml) ==
    [m EXCEPT !.mlf = ml, !.thr = load_threshold(bucket_count(m), ml)]

\* ------------------------------------------------------- the abstract map
\* A function from the keys it holds to their values.
AbsEmpty == [k \in {} |-> DefaultValue]
AbsInsert(a, k, v) ==
    IF k \in DOMAIN a THEN a
    ELSE [x \in DOMAIN a \cup {k} |-> IF x = k THEN v ELSE a[x]]
AbsErase(a, k) == [x \in DOMAIN a \ {k} |-> a[x]]

\* ---------------------------------------------------------- hash functions
\* A user hash with collisions: the keys alternate between the hashes 0 and
\* 1, and the last key is half the largest requested table away from hash 0.
RequestedBuckets == round_up_to_power_of_two(MaxRequest)
HashClustered ==
    [k \in Keys |-> IF k = NumKeys - 1 THEN RequestedBuckets \div 2 ELSE k % 2]
HashFunctions == {HashClustered}
NeighborhoodSizes == {1, 2}

\* A user hash that fills two neighbouring homes of the doubled table: three
\* keys of hash 2, two of the last home of the requested table, two of the
\* home after it, and the others half a table away.
GrowthKeys == 0..(NumGrowthKeys - 1)
HashGrowth ==
    [k \in GrowthKeys |-> IF k < 3 THEN 2
                          ELSE IF k < 5 THEN RequestedBuckets - 1
                          ELSE IF k < 7 THEN RequestedBuckets
                          ELSE RequestedBuckets \div 2]

\* the arguments tried for the constructor, rehash and reserve: 0, 1 and the
\* numbers just below a power of two, which are rounded up
RequestCounts == {c \in 0..MaxRequest : is_power_of_two(c + 1)}

\* ------------------------------------------------------------------ actions
\* `failed`: the assertions of the source that did not hold during the operation
failed_asserts(m) == m.ev \cap {"assert_tmp_overflow_empty", "assert_not_empty", "assert_has_overflow"}
Op(op, key, ret, m) == [op |-> op, key |-> key, ret |-> ret, failed |-> failed_asserts(m)]

Store(m) ==
    /\ m_buckets' = m.buckets
    /\ m_overflow_elements' = m.overflow
    /\ m_nb_elements' = m.nb
    /\ m_max_load_factor' = m.mlf
    /\ m_load_threshold' = m.thr

\* the iterators from begin() to end(), end() included, in iteration order
RECURSIVE positions_from(_, _)
positions_from(m, it) ==
    IF it = end(m) THEN <<it>> ELSE <<it>> \o positions_from(m, iter_next(m, it))
positions(m) == positions_from(m, begin(m))

InitWith(hashes, sizes, nothrow, counts) ==
    /\ NeighborhoodSize \in sizes
    /\ m_hash \in hashes
    /\ \E bucket_count_arg \in counts :
          LET m == NewMap(bucket_count_arg, DEFAULT_MAX_LOAD_FACTOR, {})
          IN /\ m_buckets = m.buckets
             /\ m_overflow_elements = m.overflow
             /\ m_nb_elements = m.nb
             /\ m_max_load_factor = m.mlf
             /\ m_load_threshold = m.thr
    /\ nothrow_move \in nothrow
    /\ abs = AbsEmpty
    /\ last = [op |-> "construct", key |-> -1, ret |-> -1, failed |-> {}]

Init == InitWith(HashFunctions, NeighborhoodSizes, {TRUE, FALSE}, RequestCounts)

\* An operation in which an assertion of the source failed is the last one
\* followed: a build with assertions stops there, and the state a build
\* without them goes on from is the one the operation left.
Running == last.failed = {}

\* what insert, try_emplace and operator[] leave: r is the operation's result
Inserted(op, k, v, r) ==
    /\ Running
    /\ ~capped(r.m)
    /\ Store(r.m)
    /\ abs' = AbsInsert(abs, k, v)
    /\ last' = Op(op, k, IF r.inserted THEN 1 ELSE 0, r.m)
    /\ UNCHANGED <<m_hash, NeighborhoodSize, nothrow_move>>

Insert(k, v) == Inserted("insert", k, v, insert_lookup(This, <<k, v>>))

TryEmplace(k, v) == Inserted("try_emplace", k, v, try_emplace_internal(This, k, v))

\* operator[]: find, and insert(std::make_pair(key, T())) when absent
subscript(m, k) ==
    IF find(m, k) = end(m) THEN insert_lookup(m, <<k, DefaultValue>>)
    ELSE InsertResult(m, find(m, k), FALSE)

Subscript(k) == Inserted("subscript", k, DefaultValue, subscript(This, k))

EraseKey(k) ==
    LET r == erase_key(This, k)
    IN /\ Running
       /\ Store(r.m)
       /\ abs' = AbsErase(abs, k)
       /\ last' = Op("erase", k, r.ret, r.m)
       /\ UNCHANGED <<m_hash, NeighborhoodSize, nothrow_move>>

\* erase(pos) for the i-th element in iteration order
ErasePos(i) ==
    LET pos == positions(This)[i]
        r == erase_pos(This, pos)
    IN /\ Running
       /\ Store(r.m)
       /\ abs' = AbsErase(abs, iter_deref(This, pos)[1])
       /\ last' = Op("erase_pos", iter_deref(This, pos)[1], -1, r.m)
       /\ UNCHANGED <<m_hash, NeighborhoodSize, nothrow_move>>

\* erase(first, last) for the i-th and j-th iterators in iteration order
EraseRange(i, j) ==
    LET ps == positions(This)
        r == erase_range(This, ps[i], ps[j])
        erased == {iter_deref(This, ps[n])[1] : n \in i..(j - 1)}
    IN /\ Running
       /\ Store(r.m)
       /\ abs' = [k \in DOMAIN abs \ erased |-> abs[k]]
       /\ last' = Op("erase_range", -1, j - i, r.m)
       /\ UNCHANGED <<m_hash, NeighborhoodSize, nothrow_move>>

Clear ==
    /\ Running
    /\ Store(clear(This))
    /\ abs' = AbsEmpty
    /\ last' = Op("clear", -1, -1, This)
    /\ UNCHANGED <<m_hash, NeighborhoodSize, nothrow_move>>

\* what rehash and reserve leave: m is the map after the operation
Rehashed(op, cnt, m) ==
    /\ Running
    /\ ~capped(m)
    /\ Store(m)
    /\ last' = Op(op, cnt, -1, m)
    /\ UNCHANGED <<m_hash, NeighborhoodSize, nothrow_move, abs>>

Rehash(cnt) == Rehashed("rehash", cnt, rehash(This, cnt))

Reserve(cnt) == Rehashed("reserve", cnt, reserve(This, cnt))

Next ==
    \/ \E k \in DOMAIN m_hash, v \in Values : Insert(k, v)
    \/ \E k \in DOMAIN m_hash, v \in Values : TryEmplace(k, v)
    \/ \E k \in DOMAIN m_hash : Subscript(k)
    \/ \E k \in DOMAIN m_hash : EraseKey(k)
    \/ \E i \in 1..(Len(positions(This)) - 1) : ErasePos(i)
    \/ \E j \in 1..Len(positions(This)) : \E i \in 1..j : EraseRange(i, j)
    \/ Clear
    \/ \E cnt \in RequestCounts : Rehash(cnt)
    \/ \E cnt \in RequestCounts : Reserve(cnt)

Spec == Init /\ [][Next]_vars

\* A table of RequestedBuckets buckets and neighborhoods of 2 that is only
\* inserted into, with the keys of HashGrowth.
InitGrowth == InitWith({HashGrowth}, {2}, {TRUE}, {MaxRequest})

NextGrowth == \E k \in DOMAIN m_hash : Insert(k, DefaultValue)

SpecGrowth == InitGrowth /\ [][NextGrowth]_vars

\* find, count and at: `ret` is 1 when find returned a position, count's
\* result, and the value at returned or -1 when it threw std::out_of_range
Find(k) ==
    /\ Running
    /\ Store(looked_up(This, k))
    /\ last' = Op("find", k, IF find(This, k) = end(This) THEN 0 ELSE 1, This)
    /\ UNCHANGED <<m_hash, NeighborhoodSize, nothrow_move, abs>>

Count(k) ==
    /\ Running
    /\ Store(looked_up(This, k))
    /\ last' = Op("count", k, count(This, k), This)
    /\ UNCHANGED <<m_hash, NeighborhoodSize, nothrow_move, abs>>

At(k) ==
    LET r == at(This, k)
    IN /\ Running
       /\ Store(r.m)
       /\ last' = Op("at", k, IF r.out_of_range THEN -1 ELSE iter_deref(r.m, r.it)[2], r.m)
       /\ UNCHANGED <<m_hash, NeighborhoodSize, nothrow_move, abs>>

\* Tables of RequestedBuckets buckets that are inserted into, erased from,
\* rehashed and looked up.
InitLookup == InitWith(HashFunctions, NeighborhoodSizes, {TRUE, FALSE}, {MaxRequest})

NextLookup ==
    \/ \E k \in DOMAIN m_hash, v \in Values : Insert(k, v)
    \/ \E k \in DOMAIN m_hash : EraseKey(k)
    \/ \E cnt \in RequestCounts : Rehash(cnt)
    \/ \E k \in DOMAIN m_hash : Find(k)
    \/ \E k \in DOMAIN m_hash : Count(k)
    \/ \E k \in DOMAIN m_hash : At(k)

SpecLookup == InitLookup /\ [][NextLookup]_vars

\* The arguments of max_load_factor(ml), in tenths: 0.1f, 0.5f and 1.0f.
LoadFactors == {1, LoadFactorDen \div 2, LoadFactorDen}

MaxLoadFactor(ml) ==
    /\ Running
    /\ Store(max_load_factor(This, ml))
    /\ last' = Op("max_load_factor", ml, -1, This)
    /\ UNCHANGED <<m_hash, NeighborhoodSize, nothrow_move, abs>>

\* Tables of neighborhood 2 whose max_load_factor is set between the
\* operations that can grow them.
InitLoad == InitWith(HashFunctions, {2}, {TRUE}, RequestCounts)

NextLoad ==
    \/ \E k \in DOMAIN m_hash, v \in Values : Insert(k, v)
    \/ \E k \in DOMAIN m_hash, v \in Values : TryEmplace(k, v)
    \/ \E k \in DOMAIN m_hash : Subscript(k)
    \/ \E cnt \in RequestCounts : Rehash(cnt)
    \/ \E cnt \in RequestCounts : Reserve(cnt)
    \/ \E ml \in LoadFactors : MaxLoadFactor(ml)

SpecLoad == InitLoad /\ [][NextLoad]_vars

\* ------------------------------------------------------------ observations
occupied_buckets(m) == {i \in DOMAIN m.buckets : ~is_empty(m.buckets[i])}

\* the indices a hash is mapped to: 0 .. bucket_count() - 1
logical_buckets(m) == 0..(bucket_count(m) - 1)

\* the live entries (bucket slots and overflow nodes together) holding kv
pair_count(m, kv) ==
    Cardinality({i \in occupied_buckets(m) : m.buckets[i].kv = kv})
    + Cardinality({n \in 1..Len(m.overflow) : m.overflow[n] = kv})

\* the live entries whose key is `key`
key_count(m, key) ==
    Cardinality({i \in occupied_buckets(m) : m.buckets[i].kv[1] = key})
    + Cardinality({n \in 1..Len(m.overflow) : m.overflow[n][1] = key})

AllKeys == DOMAIN m_hash
AllPairs == AllKeys \X Values

\* -------------------------------------------------------------- properties
\* C1 (neighborhood consistency): in every reachable state, for every logical
\* bucket i and offset b < NeighborhoodSize, bit b of bucket i's bitmap is set
\* exactly when bucket i + b holds a value whose key has home i.
C1_NeighborhoodConsistency ==
    \A i \in logical_buckets(This) : \A b \in 0..(NeighborhoodSize - 1) :
        check_neighbor_presence(m_buckets[i], b)
        <=> /\ i + b \in DOMAIN m_buckets
            /\ ~is_empty(m_buckets[i + b])
            /\ bucket_for_hash(This, Hash(m_buckets[i + b].kv[1])) = i

\* an insertion has displaced an entry: a bucket holds a key of another home
\* while the entry of its own home lies one bucket further
C1_DisplacedEntry ==
    /\ last.op \in {"insert", "try_emplace", "subscript"}
    /\ last.ret = 1
    /\ \E i \in logical_buckets(This) :
          /\ get_neighborhood_infos(m_buckets[i]) = {1}
          /\ ~is_empty(m_buckets[i])

\* C2 (no duplicate keys): in every reachable state no key is held by two
\* live entries, bucket slots and overflow nodes counted together.
C2_NoDuplicateKeys == \A k \in AllKeys : key_count(This, k) <= 1

\* a rehash has re-inserted bucket entries beside a kept overflow list
C2_RehashedWithOverflow ==
    /\ last.op = "rehash"
    /\ last.failed = {}
    /\ m_overflow_elements # <<>>
    /\ Cardinality(occupied_buckets(This)) >= 2

\* C3 (count consistency): in every reachable state m_nb_elements is the
\* number of occupied buckets plus the length of the overflow list.
C3_CountConsistency ==
    m_nb_elements = Cardinality(occupied_buckets(This)) + Len(m_overflow_elements)

\* C4 (overflow-flag consistency): in every reachable state the overflow flag
\* of logical bucket i is set exactly when the overflow list holds an entry
\* whose key has home i.
C4_OverflowFlagConsistency ==
    \A i \in logical_buckets(This) :
        has_overflow(m_buckets[i])
        <=> \E n \in 1..Len(m_overflow_elements) :
               bucket_for_hash(This, Hash(m_overflow_elements[n][1])) = i

\* C5 (refinement of the abstract insert-if-absent map): in every reachable
\* state find(k) is a position holding (k, abs[k]) and count(k) = 1 when the
\* abstract map holds k, find(k) is end() and count(k) = 0 when it does not,
\* and every stored key is found.
C5_RefinesAbstractMap ==
    /\ \A k \in AllKeys :
          IF k \in DOMAIN abs
          THEN /\ find(This, k) # end(This)
               /\ iter_deref(This, find(This, k)) = <<k, abs[k]>>
               /\ count(This, k) = 1
          ELSE /\ find(This, k) = end(This)
               /\ count(This, k) = 0
    /\ \A k \in AllKeys : key_count(This, k) > 0 => find(This, k) # end(This)

\* what rehash(cnt) of m must leave in r
rehash_preserves(m, r) ==
    /\ \A kv \in AllPairs : pair_count(r, kv) = pair_count(m, kv)
    /\ r.nb = m.nb
    /\ \A k \in AllKeys :
          find(m, k) # end(m)
          => /\ find(r, k) # end(r)
             /\ iter_deref(r, find(r, k)) = iter_deref(m, find(m, k))

\* C6 (rehash preservation): from every reachable state and for every
\* argument, rehash leaves the same pairs with the same multiplicities, the
\* same size(), and find(k) with the same value for every key that was found.
C6_RehashPreservation ==
    \A cnt \in RequestCounts :
        capped(rehash(This, cnt)) \/ rehash_preserves(This, rehash(This, cnt))

\* what insert or try_emplace of a present key k must return from m
present_key_kept(m, r, k) ==
    /\ ~r.inserted
    /\ r.it # end(m)
    /\ r.it = find(m, k)
    /\ r.m = m
    /\ iter_deref(r.m, r.it)[1] = k

\* C7 (insert-if-absent on a present key): from every reachable state, insert
\* and try_emplace of a stored key with any value return the position of the
\* stored entry and false, and leave the whole map as it was: the value, the
\* size, the buckets, with no rehash and no displacement.
C7_InsertPresentKey ==
    \A k \in AllKeys : \A v2 \in Values :
        key_count(This, k) > 0
        => /\ present_key_kept(This, insert_lookup(This, <<k, v2>>), k)
           /\ present_key_kept(This, try_emplace_internal(This, k, v2), k)

\* an insert or try_emplace of a key held in the overflow list has returned false
C7_PresentInOverflow ==
    /\ last.op \in {"insert", "try_emplace"}
    /\ last.ret = 0
    /\ find(This, last.key) # end(This)
    /\ find(This, last.key).bucket = size(This)

\* what insert of the absent pair kv must return from m
absent_key_inserted(m, r, kv) ==
    /\ r.inserted
    /\ r.it # end(r.m)
    /\ iter_deref(r.m, r.it) = kv
    /\ r.m.nb = m.nb + 1
    /\ \A p \in AllPairs :
          pair_count(r.m, p) = pair_count(m, p) + (IF p = kv THEN 1 ELSE 0)

\* C8 (insert of an absent key): from every reachable state, insert of a key
\* that is not stored returns true and a position holding the pair, adds 1
\* to size(), and keeps every pair that was stored, on the bucket path, the
\* overflow path and the paths through rehash.
C8_InsertAbsentKey ==
    \A k \in AllKeys : \A v \in Values :
        key_count(This, k) = 0
        => \/ capped(insert_lookup(This, <<k, v>>).m)
           \/ absent_key_inserted(This, insert_lookup(This, <<k, v>>), <<k, v>>)

\* what erase(k) returning r must leave
erased_key_absent(r, k) ==
    r.ret = 1 => /\ find(r.m, k) = end(r.m)
                 /\ count(r.m, k) = 0

\* C9 (erase-then-find): from every reachable state and for every key k, when
\* erase(k) returns 1, find(k) is end() and count(k) is 0 right after it.
C9_EraseThenFind ==
    \A k \in AllKeys : erased_key_absent(erase_key(This, k), k)

\* erase(k) returns 1 for a key held in the overflow list behind another node
C9_EraseFromOverflow ==
    \E k \in AllKeys :
        /\ find(This, k) # end(This)
        /\ find(This, k).bucket = size(This)
        /\ find(This, k).ovf > 1
        /\ erase_key(This, k).ret = 1
        /\ key_count(erase_key(This, k).m, k) = 0

\* what erase(k) must return from m
erase_result_exact(m, r, k) ==
    /\ r.ret \in {0, 1}
    /\ r.ret = 1 <=> key_count(m, k) > 0
    /\ r.m.nb = m.nb - r.ret
    /\ r.ret = 0 => r.m = m

\* C10 (erase by key): from every reachable state, erase(k) returns 1 exactly
\* when k is stored, in a bucket or in the overflow list, and 0 otherwise;
\* size() drops by the returned value; on 0 the map is left as it was.
C10_EraseReturnsPresence ==
    \A k \in AllKeys : erase_result_exact(This, erase_key(This, k), k)

\* erase(k) has returned 0 on a map that holds other keys, one in the overflow list
C10_ErasedAbsentKey ==
    /\ last.op = "erase"
    /\ last.ret = 0
    /\ m_overflow_elements # <<>>

\* erase(key) for each key of `order` in turn
RECURSIVE erase_all(_, _)
erase_all(m, order) ==
    IF order = <<>> THEN m ELSE erase_all(erase_key(m, Head(order)).m, Tail(order))

\* the keys S in ascending order
RECURSIVE ascending(_)
ascending(S) ==
    IF S = {} THEN <<>>
    ELSE LET k == CHOOSE x \in S : \A y \in S : x <= y
         IN <<k>> \o ascending(S \ {k})

reversed(s) == [i \in 1..Len(s) |-> s[Len(s) + 1 - i]]
rotated(s, n) == [i \in 1..Len(s) |-> s[((i + n - 1) % Len(s)) + 1]]

\* the orders the keys S are erased in: the ascending and the descending
\* order, each started at every key
erase_orders(S) ==
    IF S = {} THEN {<<>>}
    ELSE {rotated(ascending(S), n) : n \in 0..(Cardinality(S) - 1)}
         \cup {rotated(reversed(ascending(S)), n) : n \in 0..(Cardinality(S) - 1)}

\* no entry, no neighborhood bit, no overflow flag, size() = 0
is_cleared(m) ==
    /\ m.nb = 0
    /\ m.overflow = <<>>
    /\ \A i \in DOMAIN m.buckets :
          /\ is_empty(m.buckets[i])
          /\ get_neighborhood_infos(m.buckets[i]) = {}
          /\ ~has_overflow(m.buckets[i])

\* C11 (round trip): from every state reached by inserts of distinct keys,
\* displacements, overflow spills and rehashes included, erasing every
\* inserted key, in each of the erase orders, leaves size() = 0, every
\* bucket unoccupied, every bitmap zero, every overflow flag clear and the
\* overflow list empty.
C11_RoundTrip ==
    \A order \in erase_orders(DOMAIN abs) : is_cleared(erase_all(This, order))

\* the operations that can grow the table or change its threshold
GrowingOps == {"insert", "try_emplace", "subscript", "rehash", "reserve", "max_load_factor"}

\* C12 (load bound): after insert, try_emplace, operator[], rehash, reserve
\* and max_load_factor(ml) the number of stored elements is at most the
\* threshold floor(bucket_count * max_load_factor), so that size() /
\* bucket_count() <= max_load_factor().
C12_LoadBound ==
    last.op \in GrowingOps
    => /\ m_nb_elements <= m_load_threshold
       /\ m_nb_elements * LoadFactorDen <= bucket_count(This) * m_max_load_factor

\* the number of the step that throws, in the operations that are made to fail
MaxFailAt == 3

\* *this for an operation whose n-th fallible step throws
Failing(n) == [This EXCEPT !.fail_at = n]

\* I1 to I4 of a map value: the bitmaps, the keys, the count and the
\* overflow flags
neighborhoods_consistent(m) ==
    \A i \in logical_buckets(m) : \A b \in 0..(NeighborhoodSize - 1) :
        check_neighbor_presence(m.buckets[i], b)
        <=> /\ i + b \in DOMAIN m.buckets
            /\ ~is_empty(m.buckets[i + b])
            /\ bucket_for_hash(m, Hash(m.buckets[i + b].kv[1])) = i
no_duplicate_keys(m) == \A k \in AllKeys : key_count(m, k) <= 1
count_consistent(m) == m.nb = Cardinality(occupied_buckets(m)) + Len(m.overflow)
overflow_flags_consistent(m) ==
    \A i \in logical_buckets(m) :
        has_overflow(m.buckets[i])
        <=> \E n \in 1..Len(m.overflow) : bucket_for_hash(m, Hash(m.overflow[n][1])) = i
well_formed(m) ==
    /\ neighborhoods_consistent(m)
    /\ no_duplicate_keys(m)
    /\ count_consistent(m)
    /\ overflow_flags_consistent(m)

\* what an operation on m that threw must leave in r: the pairs m held, none
\* of them in the unspecified state a move leaves, the same size(), and I1 to
\* I4 when m had them
strong_guarantee(m, r) ==
    thrown(r)
    => /\ \A kv \in AllPairs : pair_count(r, kv) = pair_count(m, kv)
       /\ r.moved = {}
       /\ r.nb = m.nb
       /\ well_formed(m) => well_formed(r)

\* C13 (strong guarantee): from every reachable state, when an allocation (a
\* bucket array, an overflow node) or a pair construction throws during
\* insert, rehash or reserve, at the first, second or third step that can
\* throw, the map holds the pairs, the size() and the invariants I1 to I4 it
\* had before the call; the steps taken while the rehash re-inserts the
\* entries into the new table are among them.
C13_StrongGuarantee ==
    \A n \in 1..MaxFailAt :
        /\ \A cnt \in RequestCounts :
              /\ strong_guarantee(This, rehash(Failing(n), cnt))
              /\ strong_guarantee(This, reserve(Failing(n), cnt))
        /\ \A kv \in AllPairs :
              strong_guarantee(This, insert_lookup(Failing(n), kv).m)

\* C14 (the nothrow rehash keeps tmp_map's overflow list empty): after every
\* operation, rehash and reserve with arguments not larger than the table
\* included, the assertion tmp_map.m_overflow_elements.empty() of the
\* nothrow-move rehash_internal held each time it was reached: re-inserting
\* the bucket entries put none of them in the new table's overflow list.
C14_TmpOverflowEmpty == "assert_tmp_overflow_empty" \notin last.failed

\* what at(k) must return from m
at_result_exact(m, r, k) ==
    /\ r.m = m
    /\ key_count(m, k) = 0 => r.out_of_range
    /\ key_count(m, k) > 0
       => /\ ~r.out_of_range
          /\ r.it # end(m)
          /\ iter_deref(m, r.it)[1] = k

\* C15 (at): from every reachable state, at(k) throws std::out_of_range when
\* k is not stored and returns the stored entry's value when it is, in a
\* bucket or in the overflow list, and in both cases leaves the map as it was:
\* nothing is inserted.
C15_AtThrowsWhenAbsent ==
    \A k \in AllKeys : at_result_exact(This, at(This, k), k)

\* at has thrown for a key whose home bucket has entries in the overflow list
C15_AtThrewBesideOverflow ==
    /\ last.op = "at"
    /\ last.ret = -1
    /\ key_count(This, last.key) = 0
    /\ has_overflow(m_buckets[bucket_for_hash(This, Hash(last.key))])

LookupOps == {"find", "count", "at"}

\* C16 (lookups are read-only): every step taken by find(k), count(k) or
\* at(k), for a key that is stored in a bucket, stored in the overflow list or
\* absent, leaves the bucket array with its bitmaps and flags, the overflow
\* list, size(), the bucket count, the load factor and the load threshold
\* unchanged.
C16_LookupsReadOnly ==
    [][last'.op \in LookupOps
       => UNCHANGED <<m_buckets, m_overflow_elements, m_nb_elements,
                      m_max_load_factor, m_load_threshold>>]_vars

\* a lookup has found a key in the overflow list, behind another node
C16_FoundInOverflow ==
    /\ last.op \in LookupOps
    /\ find(This, last.key) # end(This)
    /\ find(This, last.key).bucket = size(This)
    /\ find(This, last.key).ovf > 1

\* what erasing the entry at `pos` of m must leave in r when the entry lies
\* in a bucket: the slot is emptied, the home's bitmap loses the one bit of
\* the slot, and nothing else moves or changes
erased_in_place_bucket(m, r, pos, home) ==
    /\ r.overflow = m.overflow
    /\ is_empty(r.buckets[pos.bucket])
    /\ \A i \in DOMAIN m.buckets :
          /\ i # pos.bucket => /\ r.buckets[i].occupied = m.buckets[i].occupied
                               /\ r.buckets[i].kv = m.buckets[i].kv
          /\ has_overflow(r.buckets[i]) = has_overflow(m.buckets[i])
          /\ get_neighborhood_infos(r.buckets[i])
                = IF i = home
                  THEN get_neighborhood_infos(m.buckets[i]) \ {pos.bucket - home}
                  ELSE get_neighborhood_infos(m.buckets[i])
    /\ pos.bucket - home \in get_neighborhood_infos(m.buckets[home])

\* the same when the entry lies in the overflow list: its node leaves the
\* list, the other nodes keep their order, and of the buckets only the
\* overflow flag of the home may change
erased_in_place_overflow(m, r, pos, home) ==
    /\ r.overflow = remove_at(m.overflow, pos.ovf)
    /\ \A i \in DOMAIN m.buckets :
          IF i = home
          THEN r.buckets[i] = set_overflow(m.buckets[i], has_overflow(r.buckets[i]))
          ELSE r.buckets[i] = m.buckets[i]

erased_in_place(m, r, pos) ==
    LET home == bucket_for_hash(m, Hash(iter_deref(m, pos)[1]))
    IN /\ DOMAIN r.buckets = DOMAIN m.buckets
       /\ r.nb = m.nb - 1
       /\ r.mlf = m.mlf
       /\ r.thr = m.thr
       /\ IF pos.bucket # size(m)
          THEN erased_in_place_bucket(m, r, pos, home)
          ELSE erased_in_place_overflow(m, r, pos, home)

\* C17 (erase does not cascade): from every reachable state, erase(k) of a
\* stored key and erase(pos) of every position leave every other entry in
\* its bucket or in its overflow node, in the same order, keep the bucket
\* count, and change only the erased slot, the one bit of it in the home's
\* bitmap, or the overflow list and the home's overflow flag, and size().
C17_EraseInPlace ==
    /\ \A k \in AllKeys :
          erase_key(This, k).ret = 1
          => erased_in_place(This, erase_key(This, k).m, find(This, k))
    /\ \A i \in 1..(Len(positions(This)) - 1) :
          erased_in_place(This, erase_pos(This, positions(This)[i]).m, positions(This)[i])

\* an erase has emptied a bucket whose own entry stays displaced one bucket on
C17_ErasedBeforeDisplaced ==
    /\ last.op \in {"erase", "erase_pos"}
    /\ last.ret # 0
    /\ \E i \in logical_buckets(This) :
          /\ is_empty(m_buckets[i])
          /\ get_neighborhood_infos(m_buckets[i]) = {1}
          /\ bucket_for_hash(This, Hash(last.key)) = i

\* every entry of m lies in r in the bucket or in the overflow node it had
entries_kept(m, r) ==
    /\ DOMAIN r.buckets = DOMAIN m.buckets
    /\ \A i \in occupied_buckets(m) :
          /\ ~is_empty(r.buckets[i])
          /\ r.buckets[i].kv = m.buckets[i].kv
    /\ Len(r.overflow) >= Len(m.overflow)
    /\ \A n \in 1..Len(m.overflow) : r.overflow[n] = m.overflow[n]

\* the insert returning r neither rehashed nor moved an entry closer
inserted_quietly(r) ==
    /\ r.inserted
    /\ "rehash" \notin r.m.ev
    /\ "displace" \notin r.m.ev

\* C18 (insert without rehash and displacement): from every reachable state,
\* an insert of a key that is not stored which calls neither rehash_internal
\* nor moves an entry in swap_empty_bucket_closer leaves every stored entry
\* in its bucket or overflow node; entries change position only with a
\* rehash or a displacement.
C18_InsertKeepsPositions ==
    \A kv \in AllPairs :
        key_count(This, kv[1]) = 0 /\ inserted_quietly(insert_lookup(This, kv))
        => entries_kept(This, insert_lookup(This, kv).m)

\* a key can be inserted beside the entries of its home, into a neighbor
\* bucket, with no rehash and no displacement
C18_QuietInsertBesideEntries ==
    \E kv \in AllPairs :
        /\ key_count(This, kv[1]) = 0
        /\ inserted_quietly(insert_lookup(This, kv))
        /\ insert_lookup(This, kv).it.bucket
              = bucket_for_hash(This, Hash(kv[1])) + 1
        /\ m_overflow_elements # <<>>

\* what m[k] returning r must do for a key that is not stored: the pair
\* (k, T()) is inserted, size() grows by 1, and a value written through the
\* returned reference is the one find(k) gives afterwards
subscript_inserts(m, r, k) ==
    /\ r.inserted
    /\ r.it # end(r.m)
    /\ iter_deref(r.m, r.it) = <<k, DefaultValue>>
    /\ r.m.nb = m.nb + 1
    /\ find(r.m, k) = r.it
    /\ \A v \in Values :
          /\ find(value_assign(r.m, r.it, v), k) # end(r.m)
          /\ iter_deref(value_assign(r.m, r.it, v), find(value_assign(r.m, r.it, v), k))
                = <<k, v>>

\* the same for a key that is stored: the reference is to its entry and the
\* map is left as it was
subscript_finds(m, r, k) ==
    /\ ~r.inserted
    /\ r.m = m
    /\ r.it = find(m, k)
    /\ r.it # end(m)
    /\ iter_deref(m, r.it)[1] = k

\* C19 (operator[]): from every reachable state, m[k] for a key that is not
\* stored inserts (k, T()), adds 1 to size() and returns a reference to the
\* stored value, through which a written value is found again by find(k);
\* m[k] for a stored key returns a reference to its value and changes nothing.
C19_SubscriptInsertsDefault ==
    \A k \in AllKeys :
        IF key_count(This, k) = 0
        THEN capped(subscript(This, k).m) \/ subscript_inserts(This, subscript(This, k), k)
        ELSE subscript_finds(This, subscript(This, k), k)

\* the iterator reached from begin() by n increments
RECURSIVE advanced(_, _, _)
advanced(m, it, n) == IF n = 0 THEN it ELSE advanced(m, iter_next(m, it), n - 1)

\* the occupied buckets in ascending order, then the overflow nodes in list
\* order, as iterators
RECURSIVE ascending_buckets(_)
ascending_buckets(S) ==
    IF S = {} THEN <<>>
    ELSE LET i == CHOOSE x \in S : \A y \in S : x <= y
         IN <<Iter(i, overflow_begin)>> \o ascending_buckets(S \ {i})
expected_positions(m) ==
    ascending_buckets(occupied_buckets(m))
    \o [n \in 1..Len(m.overflow) |-> Iter(size(m), n)]

\* C20 (iteration): in every reachable state, size() increments take an
\* iterator from begin() to end() and no fewer do; the positions passed are
\* the occupied buckets in ascending order followed by the nodes of the
\* overflow list in list order, each once; and begin() = end() exactly
\* when empty() holds.
C20_IterationComplete ==
    /\ advanced(This, begin(This), m_nb_elements) = end(This)
    /\ \A n \in 0..(m_nb_elements - 1) : advanced(This, begin(This), n) # end(This)
    /\ positions(This) = expected_positions(This) \o <<end(This)>>
    /\ begin(This) = end(This) <=> m_nb_elements = 0

\* what erase(first, last), with first the i-th and last the j-th iterator of
\* m in iteration order, must leave in r: the elements i .. j - 1 are gone,
\* the others are stored in the order they had, size() has dropped by
\* j - i, and the iterator returned is on the element `last` was on, or end()
range_erased(m, r, i, j) ==
    /\ elements(r.m) = SubSeq(elements(m), 1, i - 1)
                         \o SubSeq(elements(m), j, Len(elements(m)))
    /\ r.m.nb = m.nb - (j - i)
    /\ r.it = positions(r.m)[i]
    /\ j = Len(positions(m)) => r.it = end(r.m)
    /\ j < Len(positions(m)) => iter_deref(r.m, r.it) = iter_deref(m, positions(m)[j])

\* C21 (erase by iterator): from every reachable state, erase(pos) of every
\* position removes that element alone and returns the iterator to the
\* element that followed it, or end(); erase(first, last) of every range
\* removes the elements of [first, last) alone and returns last; and
\* erase(begin(), end()) leaves no element and size() = 0, also when the
\* range runs over bucket entries and overflow nodes.
C21_EraseByIterator ==
    /\ \A i \in 1..(Len(positions(This)) - 1) :
          range_erased(This, erase_pos(This, positions(This)[i]), i, i + 1)
    /\ \A j \in 1..Len(positions(This)) : \A i \in 1..j :
          range_erased(This, erase_range(This, positions(This)[i], positions(This)[j]), i, j)
    /\ elements(erase_range(This, begin(This), end(This)).m) = <<>>
    /\ erase_range(This, begin(This), end(This)).m.nb = 0

\* operator==(lhs, rhs): the sizes, then every element of lhs looked up in rhs
element_equal(element_lhs, rhs, it_element_rhs) ==
    /\ it_element_rhs # end(rhs)
    /\ element_lhs[2] = iter_deref(rhs, it_element_rhs)[2]

elements_equal(elements_lhs, rhs) ==
    \A i \in 1..Len(elements_lhs) :
        element_equal(elements_lhs[i], rhs, find(rhs, elements_lhs[i][1]))

operator_eq(lhs, rhs) ==
    IF lhs.nb # rhs.nb THEN FALSE ELSE elements_equal(elements(lhs), rhs)

\* operator!=(lhs, rhs)
operator_ne(lhs, rhs) == ~operator_eq(lhs, rhs)

\* the (key, value) pairs m stores, in buckets or in the overflow list
stored_pairs(m) == {kv \in AllPairs : pair_count(m, kv) > 0}

\* a second container: the pairs of `order` inserted one after the other into m
RECURSIVE insert_all(_, _)
insert_all(m, order) ==
    IF order = <<>> THEN m
    ELSE insert_all(insert_lookup(m, Head(order)).m, Tail(order))

\* the orders a second container is built in
build_orders(s) == {s, reversed(s), rotated(s, 1)}

\* a and o compare as their sizes and their stored pairs do, in both directions
equal_by_content(a, o) ==
    \/ stopped(o)
    \/ /\ operator_eq(a, o) = (a.nb = o.nb /\ stored_pairs(a) = stored_pairs(o))
       /\ operator_eq(o, a) = operator_eq(a, o)
       /\ operator_ne(a, o) = ~operator_eq(a, o)

\* a compared with the containers one modification away from o: a pair
\* inserted, a key erased, a key erased and a pair inserted
equal_by_content_edited(a, o) ==
    /\ \A kv \in AllPairs : equal_by_content(a, insert_lookup(o, kv).m)
    /\ \A k \in AllKeys :
          /\ equal_by_content(a, erase_key(o, k).m)
          /\ \A kv \in AllPairs \ {<<k, DefaultValue>>} :
                equal_by_content(a, insert_lookup(erase_key(o, k).m, kv).m)

equal_by_content_near(a, o) ==
    equal_by_content(a, o) /\ equal_by_content_edited(a, o)

\* C22 (equality): operator==(a, b) is true exactly when a and b have the
\* same size() and store the same set of (key, value) pairs, whatever the
\* insertion order, the bucket count, the displacements and the entries in
\* overflow of either; it gives the same answer with its operands
\* exchanged, and operator!= is its negation.  The current container is
\* compared with itself, with itself rehashed, with containers built from
\* its pairs in another order and another bucket count, and with the
\* containers one modification away from these.
C22_EqualityByContent ==
    /\ equal_by_content_near(This, This)
    /\ \A cnt \in RequestCounts : equal_by_content(This, rehash(This, cnt))
    /\ \A cnt \in {0, MaxRequest} : \A order \in build_orders(elements(This)) :
          equal_by_content_near(This, insert_all(NewMap(cnt, This.mlf, {}), order))

\* C23 (reserve and rehash): after reserve(k), bucket_count() is at least
\* ceil(k / max_load_factor()); after rehash(k), bucket_count() is at least
\* max(k, ceil(size() / max_load_factor())); after either, the load
\* threshold is at least size().
C23_RehashCapacity ==
    /\ last.op = "reserve" =>
          /\ bucket_count(This) >= CeilDiv(last.key * LoadFactorDen, m_max_load_factor)
          /\ m_load_threshold >= m_nb_elements
    /\ last.op = "rehash" =>
          /\ bucket_count(This) >= Max(last.key, CeilDiv(m_nb_elements * LoadFactorDen, m_max_load_factor))
          /\ m_load_threshold >= m_nb_elements

\* rehash(k) of a table whose size() asks for more buckets than k does
C23_RehashBelowSize ==
    /\ last.op = "rehash"
    /\ m_nb_elements > 1
    /\ last.key < CeilDiv(m_nb_elements * LoadFactorDen, m_max_load_factor)
    /\ m_max_load_factor # DEFAULT_MAX_LOAD_FACTOR

\* A user hash that maps every key to 0.
HashZero == [k \in Keys |-> 0]

\* the neighborhood sizes the tables of HashZero are built with
ZeroNeighborhoodSizes == 1..(NumKeys - 1)

\* Tables whose keys all have the hash 0, only inserted into.
InitZero == InitWith({HashZero}, ZeroNeighborhoodSizes, {TRUE, FALSE}, RequestCounts)

NextZero == \E k \in DOMAIN m_hash, v \in Values : Insert(k, v)

SpecZero == InitZero /\ [][NextZero]_vars

\* the first n buckets hold the entries and bucket 0 has the neighborhood bits 0 .. n - 1
home_zero_filled(m, n) ==
    /\ occupied_buckets(m) = 0..(n - 1)
    /\ get_neighborhood_infos(m.buckets[0]) = 0..(n - 1)
    /\ \A i \in DOMAIN m.buckets \ {0} : get_neighborhood_infos(m.buckets[i]) = {}

\* C24 (one home for every key): with a hash that maps every key to 0 and
\* neighborhoods of N buckets, the first N distinct keys inserted are in the
\* buckets 0 .. N - 1, the overflow list is empty, and with N keys the
\* bitmap of bucket 0 is all ones; the key inserted after them is in the
\* overflow list, bucket 0 has its overflow flag, and size() is N + 1.
C24_ZeroHashFillsHome ==
    /\ m_nb_elements <= NeighborhoodSize =>
          /\ home_zero_filled(This, m_nb_elements)
          /\ m_overflow_elements = <<>>
          /\ ~has_overflow(m_buckets[0])
    /\ m_nb_elements = NeighborhoodSize + 1 =>
          /\ home_zero_filled(This, NeighborhoodSize)
          /\ Len(m_overflow_elements) = 1
          /\ last.ret = 1 => m_overflow_elements[1][1] = last.key
          /\ has_overflow(m_buckets[0])
          /\ find(This, m_overflow_elements[1][1]) = Iter(size(This), 1)

\* the key after the N-th has gone to the overflow list of the widest neighborhood
C24_HomeFullOneInOverflow ==
    /\ NeighborhoodSize = NumKeys - 1
    /\ m_nb_elements = NeighborhoodSize + 1
    /\ Len(m_overflow_elements) = 1
    /\ last.op = "insert" /\ last.ret = 1

\* The keys 0 .. NumIdentityKeys - 1 are inserted, the keys after them are
\* only looked up; NumIdentityKeys is the load threshold of the largest table.
NumIdentityKeys == load_threshold(MaxBucketCount, DEFAULT_MAX_LOAD_FACTOR)
IdentityKeys == 0..(2 * NumIdentityKeys - 1)

\* The identity hash.
HashIdentity == [k \in IdentityKeys |-> k]

IdentityNeighborhoodSizes == 1..4

\* Tables with the identity hash into which the keys are inserted in
\* ascending order: 0, 1, 2, ...
InitIdentity ==
    InitWith({HashIdentity}, IdentityNeighborhoodSizes, {TRUE, FALSE}, RequestCounts)

InsertAscending == m_nb_elements < NumIdentityKeys /\ Insert(m_nb_elements, DefaultValue)

NextIdentity == InsertAscending

SpecIdentity == InitIdentity /\ [][NextIdentity]_vars

\* size() is the number of keys inserted, find succeeds for exactly these,
\* and with all of them inserted the table has grown to MaxBucketCount buckets
identity_keys_stored ==
    /\ m_nb_elements = Cardinality(DOMAIN abs)
    /\ DOMAIN abs = 0..(m_nb_elements - 1)
    /\ \A k \in IdentityKeys : (find(This, k) # end(This)) = (k < m_nb_elements)
    /\ \A k \in DOMAIN abs : iter_deref(This, find(This, k)) = <<k, abs[k]>>
    /\ m_nb_elements = NumIdentityKeys => bucket_count(This) >= MaxBucketCount

\* an insert that finds size() + 1 above the load threshold leaves the table
\* with the next expanded capacity; another insert leaves the bucket count
grown_before_placing ==
    m_nb_elements' = m_nb_elements + 1 =>
        Cardinality(DOMAIN m_buckets') - NeighborhoodSize + 1 =
            IF m_nb_elements + 1 > m_load_threshold
            THEN round_up_to_power_of_two(
                    CeilDiv(bucket_count(This) * GrowthFactorNum, GrowthFactorDen))
            ELSE bucket_count(This)

\* C25 (load-driven growth): with the identity hash, the default maximum
\* load factor 0.9 and the growth factor 2, inserting the keys 0, 1, 2, ...
\* in turn keeps size() equal to the number of keys inserted, find(k)
\* succeeds for the keys inserted and fails for the keys after them, the
\* table ends with at least MaxBucketCount buckets, and each insert that
\* finds size() + 1 > load threshold rehashes to the next expanded capacity
\* before it places the key.
C25_LoadDrivenGrowth == [](identity_keys_stored) /\ [][grown_before_placing]_vars

\* all the keys are inserted into a table that was built with one bucket
C25_GrownToLargest ==
    /\ m_nb_elements = NumIdentityKeys
    /\ bucket_count(This) = MaxBucketCount
    /\ last.op = "insert" /\ last.ret = 1

\* the step that inserts the fifth key, 4, into a table of neighborhood 4
\* holding the keys 0, 1, 2, 3
fifth_insert ==
    /\ NeighborhoodSize = 4
    /\ m_nb_elements = 4
    /\ m_nb_elements' = 5

\* C26 as the spec states it: with neighborhoods of 4 buckets, the identity
\* hash and an empty table, the insert of the fifth key of 0, 1, 2, 3, 4
\* displaces: the entry of bucket 1 moves to bucket 4, the bitmap of bucket 1
\* changes from bit 0 to bit 3, and the bitmap of bucket 0 is unchanged.
C26_FifthInsertDisplaces ==
    [][fifth_insert =>
          /\ m_buckets'[4].kv = m_buckets[1].kv
          /\ get_neighborhood_infos(m_buckets[1]) = {0}
          /\ get_neighborhood_infos(m_buckets'[1]) = {3}
          /\ get_neighborhood_infos(m_buckets'[0]) = get_neighborhood_infos(m_buckets[0])]_vars

\* C26 (the fifth key, as the code has it): with neighborhoods of 4 buckets,
\* the identity hash and an empty table, the insert of the fifth key of
\* 0, 1, 2, 3, 4 finds its home bucket 4 empty and places the key there with
\* bit 0 of bucket 4; nothing is displaced: every other bucket, the entry
\* and the bitmap of buckets 0 and 1 included, is as it was, and the
\* overflow list stays empty.
C26_FifthInsertAtHome ==
    [][fifth_insert =>
          /\ DOMAIN m_buckets' = DOMAIN m_buckets
          /\ m_buckets'[4] = set_key_value(toggle_neighbor_presence(m_buckets[4], 0),
                                           <<4, DefaultValue>>)
          /\ is_empty(m_buckets[4])
          /\ \A i \in DOMAIN m_buckets \ {4} : m_buckets'[i] = m_buckets[i]
          /\ get_neighborhood_infos(m_buckets'[1]) = {0}
          /\ m_overflow_elements' = <<>>]_vars

\* the five keys are stored, each in its home bucket
C26_FiveKeysAtHome ==
    /\ NeighborhoodSize = 4
    /\ m_nb_elements = 5
    /\ last.op = "insert" /\ last.key = 4 /\ last.ret = 1
    /\ \A k \in 0..4 : m_buckets[k].kv = <<k, DefaultValue>>

\* the current container is the one the constructor builds from bucket_count_arg
constructed_from(bucket_count_arg) ==
    /\ last.op = "construct"
    /\ m_buckets = NewMap(bucket_count_arg, DEFAULT_MAX_LOAD_FACTOR, {}).buckets

\* C27 as the spec states it: a constructor argument that is not a power of
\* two is rejected, and no container is built from it.
C27_NonPowerOfTwoRejected ==
    \A bucket_count_arg \in RequestCounts :
        constructed_from(bucket_count_arg) => is_power_of_two(bucket_count_arg)

\* C27 (the bucket count of the constructor, as the code has it): the
\* constructor rejects no bucket count; it builds an empty container whose
\* bucket_count() is the smallest power of two that is at least the
\* argument (1 for the argument 0), with NeighborhoodSize - 1 buckets after
\* them and the load threshold of that bucket count.
C27_ConstructorRoundsUp ==
    \A bucket_count_arg \in RequestCounts :
        constructed_from(bucket_count_arg) =>
            /\ is_power_of_two(bucket_count(This))
            /\ bucket_count(This) >= bucket_count_arg
            /\ bucket_count(This) = 1 \/ bucket_count(This) \div 2 < bucket_count_arg
            /\ DOMAIN m_buckets = 0..(bucket_count(This) + NeighborhoodSize - 2)
            /\ is_cleared(This)
            /\ m_load_threshold =
                  (bucket_count(This) * DEFAULT_MAX_LOAD_FACTOR) \div LoadFactorDen

\* a container built from an argument that is not a power of two
C27_BuiltFromNonPowerOfTwo ==
    /\ constructed_from(MaxRequest)
    /\ ~is_power_of_two(MaxRequest)
    /\ bucket_count(This) > MaxRequest

\* A user hash whose low bits are all ones: the home of every key is the
\* last logical bucket, bucket_count() - 1, of every table up to the one
\* after the largest.
HashLast == [k \in Keys |-> 2 * MaxBucketCount - 1]

\* Tables whose keys all share one home at every capacity, the first
\* logical bucket or the last, inserted into and erased from.
InitOneHome ==
    InitWith({HashZero, HashLast}, ZeroNeighborhoodSizes, {TRUE, FALSE}, RequestCounts)

NextOneHome ==
    \/ \E k \in DOMAIN m_hash, v \in Values : Insert(k, v)
    \/ \E k \in DOMAIN m_hash : EraseKey(k)

SpecOneHome == InitOneHome /\ [][NextOneHome]_vars

\* the insert of kv into m returns: it does not go on rehashing past the
\* largest table, unless the load of the largest table is what stops it
insert_returns(m, kv) ==
    capped(insert_lookup(m, kv).m) =>
        m.nb + 1 > load_threshold(MaxBucketCount, m.mlf)

\* C28 (insert terminates): from every reachable state, for every key and
\* for the hashes that give every key the same home at every capacity, the
\* first logical bucket or the last, insert returns after finitely many
\* rehashes and restarts of insert_internal.
C28_InsertReturns ==
    \A k \in AllKeys : Running => insert_returns(This, <<k, DefaultValue>>)

\* A user hash that gives every key the hash RequestedBuckets / 2 - 1: the
\* home is the last logical bucket of the table of RequestedBuckets / 2
\* buckets and stays that bucket in every larger table.
HashEnd == [k \in Keys |-> RequestedBuckets \div 2 - 1]

\* Tables of the clustered hash and of the hash HashEnd, inserted into and
\* erased from.
InitDecide ==
    InitWith({HashClustered, HashEnd}, NeighborhoodSizes, {TRUE, FALSE}, RequestCounts)

NextDecide ==
    \/ \E k \in DOMAIN m_hash, v \in Values : Insert(k, v)
    \/ \E k \in DOMAIN m_hash : EraseKey(k)

SpecDecide == InitDecide /\ [][NextDecide]_vars

\* some key stored in the buckets [i, i + N) has another home in the table
\* of the next expanded capacity
homes_change(m, i) ==
    \E j \in i..(i + NeighborhoodSize - 1) :
        /\ j \in occupied_buckets(m)
        /\ Hash(m.buckets[j].kv[1]) % bucket_count(m)
              # Hash(m.buckets[j].kv[1])
                  % round_up_to_power_of_two(
                       CeilDiv(bucket_count(m) * GrowthFactorNum, GrowthFactorDen))

\* r is the result of an insert into m that appended kv to the overflow list
\* of the table as it is: no rehash, the flag of the home i set, size() + 1
overflowed_in_place(m, r, kv, i) ==
    /\ bucket_count(r.m) = bucket_count(m)
    /\ r.m.overflow = Append(m.overflow, kv)
    /\ has_overflow(r.m.buckets[i])
    /\ r.m.nb = m.nb + 1
    /\ r.inserted

\* r is the result of an insert into m that rebuilt the table
rehashed_on_insert(m, r) == capped(r.m) \/ bucket_count(r.m) > bucket_count(m)

\* the insert of kv, of home i, into m gets no empty bucket within
\* [i, i + N): e is what the probe returned and h what the hop loop did
no_bucket_in_neighborhood(m, e, h) == e = size(m) \/ ~h.ok

\* the decision as the spec states it, for the probe result e, the hop
\* result h and the insert result r
decided_by_homes(m, kv, i, e, h, r) ==
    no_bucket_in_neighborhood(m, e, h) =>
        IF homes_change(m, i) THEN rehashed_on_insert(m, r)
        ELSE overflowed_in_place(m, r, kv, i)

\* the decision as the code takes it
decided_by_probe_then_homes(m, kv, i, e, h, r) ==
    /\ e = size(m) => rehashed_on_insert(m, r)
    /\ (e < size(m) /\ ~h.ok) =>
          IF homes_change(m, i) THEN rehashed_on_insert(m, r)
          ELSE overflowed_in_place(m, r, kv, i)

\* the absent keys whose insert into the current table goes to the probe
\* without a rehash for the load
probing_keys ==
    {k \in AllKeys : /\ Running
                     /\ find(This, k) = end(This)
                     /\ m_nb_elements + 1 <= m_load_threshold}

\* C29 as the spec states it: an insert of an absent key that gets no empty
\* bucket within [i, i + N) of its home i, because the probe found no empty
\* slot or because hop-closer failed, appends the key to the overflow list
\* (flag of bucket i set, size() incremented) whenever no key stored in
\* [i, i + N) would have another home under the next expanded capacity,
\* and rehashes only when one of them would.
C29_DecidedByHomes ==
    \A k \in probing_keys :
        decided_by_homes(This, <<k, DefaultValue>>, bucket_for_hash(This, Hash(k)),
            find_empty_bucket(This, bucket_for_hash(This, Hash(k))),
            hop_loop(This, find_empty_bucket(This, bucket_for_hash(This, Hash(k))),
                     bucket_for_hash(This, Hash(k))),
            insert_lookup(This, <<k, DefaultValue>>))

\* C29 (overflow or rehash, as the code has it): when the probe finds an
\* empty bucket and hop-closer fails to bring it within [i, i + N), the key
\* is appended to the overflow list (flag of bucket i set, size()
\* incremented) if no key stored in [i, i + N) would have another home
\* under the next expanded capacity, and the table is rehashed if one
\* would; when the probe finds no empty bucket up to the end of the bucket
\* array, the table is rehashed whatever the homes of these keys.
C29_DecidedByProbeThenHomes ==
    \A k \in probing_keys :
        decided_by_probe_then_homes(This, <<k, DefaultValue>>, bucket_for_hash(This, Hash(k)),
            find_empty_bucket(This, bucket_for_hash(This, Hash(k))),
            hop_loop(This, find_empty_bucket(This, bucket_for_hash(This, Hash(k))),
                     bucket_for_hash(This, Hash(k))),
            insert_lookup(This, <<k, DefaultValue>>))

\* a table in which the three cases are met by three keys or by one: the
\* probe finds no empty bucket for a key whose neighbours keep their homes,
\* and the insert rehashes and then puts the key in the overflow list
C29_RehashedThoughHomesStay ==
    \E k \in probing_keys :
        /\ find_empty_bucket(This, bucket_for_hash(This, Hash(k))) = size(This)
        /\ ~homes_change(This, bucket_for_hash(This, Hash(k)))
        /\ ~capped(insert_lookup(This, <<k, DefaultValue>>).m)
        /\ bucket_count(insert_lookup(This, <<k, DefaultValue>>).m) > bucket_count(This)
        /\ Len(insert_lookup(This, <<k, DefaultValue>>).m.overflow)
              = Len(m_overflow_elements) + 1

\* The keys of the hash HashHop.
NumHopKeys == 6
HopKeys == 0..(NumHopKeys - 1)

\* A user hash that gives two keys to each of the first homes, so that
\* neighborhoods overlap and entries sit away from their homes.
HashHop == [k \in HopKeys |-> k \div 2]

\* neighborhoods wide enough for two candidate homes and two bits of one home
HopNeighborhoodSizes == {3, 4}

\* Tables of RequestedBuckets buckets with the hash HashHop, inserted into
\* and erased from.
InitHop == InitWith({HashHop}, HopNeighborhoodSizes, {TRUE, FALSE}, {MaxRequest})

NextHop ==
    \/ \E k \in DOMAIN m_hash : Insert(k, DefaultValue)
    \/ \E k \in DOMAIN m_hash : EraseKey(k)

SpecHop == InitHop /\ [][NextHop]_vars

\* the empty buckets swap_empty_bucket_closer may be called with
hop_targets(m) ==
    {e \in DOMAIN m.buckets : is_empty(m.buckets[e]) /\ e >= NeighborhoodSize}

\* the pairs <<c, b>>: a candidate home c in [e - N + 1, e) with bit b set
\* and c + b < e
hop_choices(m, e) ==
    {p \in ((e - NeighborhoodSize + 1)..(e - 1)) \X (0..(NeighborhoodSize - 1)) :
        /\ check_neighbor_presence(m.buckets[p[1]], p[2])
        /\ p[1] + p[2] < e}

\* s is m after the entry of bit b of home c has been moved to the empty bucket e
hopped(m, s, e, c, b) ==
    /\ s.e = c + b
    /\ s.e < e
    /\ e - c < NeighborhoodSize
    /\ s.m.buckets[e].kv = m.buckets[c + b].kv
    /\ ~is_empty(s.m.buckets[e])
    /\ is_empty(s.m.buckets[c + b])
    /\ get_neighborhood_infos(s.m.buckets[c]) =
          (get_neighborhood_infos(m.buckets[c]) \ {b}) \cup {e - c}
    /\ bucket_for_hash(s.m, Hash(s.m.buckets[e].kv[1])) = c
    /\ \A j \in DOMAIN m.buckets :
          /\ j # c => get_neighborhood_infos(s.m.buckets[j]) = get_neighborhood_infos(m.buckets[j])
          /\ has_overflow(s.m.buckets[j]) = has_overflow(m.buckets[j])
          /\ j \notin {e, c + b} =>
                /\ is_empty(s.m.buckets[j]) = is_empty(m.buckets[j])
                /\ s.m.buckets[j].kv = m.buckets[j].kv
    /\ DOMAIN s.m.buckets = DOMAIN m.buckets
    /\ s.m.overflow = m.overflow
    /\ s.m.nb = m.nb

\* what swap_empty_bucket_closer(e) must return for m
hop_closer_step(m, s, e) ==
    /\ s.ok = (hop_choices(m, e) # {})
    /\ ~s.ok => (s.m = m /\ s.e = e)
    /\ s.ok =>
          \E p \in hop_choices(m, e) :
              /\ \A q \in hop_choices(m, e) :
                    p[1] < q[1] \/ (p[1] = q[1] /\ p[2] <= q[2])
              /\ hopped(m, s, e, p[1], p[2])

\* C30 (hop-closer step): for every empty bucket e >= N of every reachable
\* state, swap_empty_bucket_closer succeeds exactly when some candidate home
\* c in [e - N + 1, e) has a set bit b with c + b < e; it takes the lowest
\* such c and its lowest such b, moves the entry of bucket c + b to bucket
\* e, clears bit b and sets bit e - c of bucket c, changes no other bitmap,
\* flag, entry or size(), leaves c + b < e as the empty bucket, and the
\* moved entry is within the N buckets of its home c.
C30_HopCloserStep ==
    \A e \in hop_targets(This) :
        hop_closer_step(This, swap_empty_bucket_closer(This, e), e)

\* an empty bucket for which two candidate homes, one of them with two
\* bits, offer an entry, and the step has moved the first
C30_HopAmongSeveral ==
    \E e \in hop_targets(This) :
        /\ swap_empty_bucket_closer(This, e).ok
        /\ \E p, q, r \in hop_choices(This, e) :
              p[1] < q[1] /\ p[1] = r[1] /\ p[2] < r[2]

\* ------------------------------------------------- array shape and bounds
\* the values of ibucket_empty_in_out that the do-while loop of
\* insert_internal hands to swap_empty_bucket_closer, from the empty bucket e
RECURSIVE hop_calls(_, _, _)
hop_calls(m, e, ibucket_for_hash) ==
    IF e - ibucket_for_hash < NeighborhoodSize THEN {}
    ELSE LET s == swap_empty_bucket_closer(m, e)
         IN {e} \cup (IF s.ok THEN hop_calls(s.m, s.e, ibucket_for_hash) ELSE {})

\* the bucket indexes find_in_buckets dereferences from the home ib: the
\* home, then one bucket for every bit set in its bitmap
find_in_buckets_indexes(m, ib) ==
    {ib} \cup {ib + o : o \in get_neighborhood_infos(m.buckets[ib])}

\* the bucket indexes one insert_internal without a rehash reads or writes
\* for a key of home i: the linear probe, each call of
\* swap_empty_bucket_closer (neighborhood_start = e - NeighborhoodSize + 1
\* up to e), then insert_in_bucket, or the loop of
\* will_neighborhood_change_on_rehash and the flag of the home
insert_internal_indexes(m, i) ==
    LET e0 == find_empty_bucket(m, i)
        limit == Min(i + MAX_LINEAR_PROBE_SEARCH_EMPTY_BUCKET, size(m))
        h == hop_loop(m, Min(e0, size(m) - 1), i)
    IN (i..Min(e0, limit - 1))
       \cup (IF e0 < size(m)
             THEN UNION {(e - NeighborhoodSize + 1)..e : e \in hop_calls(m, e0, i)}
                  \cup (IF h.ok THEN {h.e, i}
                        ELSE i..(Min(i + NeighborhoodSize, size(m)) - 1))
             ELSE {})

\* the bucket indexes erase(key) reads or writes: those of the search, the
\* bucket of the entry and its home, whose bit (position - home) is toggled
erase_indexes(m, key) ==
    LET ib == bucket_for_hash(m, Hash(key))
    IN (find_in_buckets_indexes(m, ib) \cup {find_in_buckets(m, key, ib)}) \ {size(m)}

\* every index of an insertion, a search or an erasure of any key is one of
\* the array, in m and, where insert grows the table first, in the grown table
indexes_in_range(m) ==
    \A k \in AllKeys :
        LET i == bucket_for_hash(m, Hash(k))
        IN /\ i \in DOMAIN m.buckets
           /\ find_in_buckets_indexes(m, i) \subseteq DOMAIN m.buckets
           /\ insert_internal_indexes(m, i) \subseteq DOMAIN m.buckets
           /\ erase_indexes(m, k) \subseteq DOMAIN m.buckets
           /\ get_neighborhood_infos(m.buckets[i]) \subseteq 0..(NeighborhoodSize - 1)

array_shape(m) ==
    /\ bucket_count(m) >= 1
    /\ is_power_of_two(bucket_count(m))
    /\ DOMAIN m.buckets = 0..(bucket_count(m) + NeighborhoodSize - 2)
    /\ \A k \in AllKeys : bucket_for_hash(m, Hash(k)) \in 0..(bucket_count(m) - 1)
    /\ \A j \in occupied_buckets(m) :
          LET i == bucket_for_hash(m, Hash(m.buckets[j].kv[1]))
          IN i <= j /\ j < i + NeighborhoodSize

\* C31 (array shape and bounds): in every reachable state the bucket array
\* has bucket_count() + NeighborhoodSize - 1 buckets, bucket_count() is a power
\* of two and at least 1, every key's home is below bucket_count(), every
\* live entry lies at its home or less than NeighborhoodSize buckets after
\* it, and every bucket index that find, insert (probe, hop-closer, the
\* overflow-or-rehash check, also after the table has grown) and erase read
\* or write is an index of the array.
C31_ArrayShapeAndBounds ==
    /\ array_shape(This)
    /\ indexes_in_range(This)
    /\ LET grown == rehash_internal(This, get_expand_size(This))
       IN stopped(grown) \/ (array_shape(grown) /\ indexes_in_range(grown))

\* the padding after the last logical bucket is in use: an entry lies
\* NeighborhoodSize - 1 buckets after its home, in the last bucket of the array
C31_EntryInLastBucket ==
    /\ NeighborhoodSize > 1
    /\ ~is_empty(m_buckets[size(This) - 1])
    /\ bucket_for_hash(This, Hash(m_buckets[size(This) - 1].kv[1])) = bucket_count(This) - 1
    /\ \E k \in AllKeys : hop_calls(This, find_empty_bucket(This, bucket_for_hash(This, Hash(k))),
                                    bucket_for_hash(This, Hash(k))) # {}

\* ------------------------------------------- the overflow list in a rehash
\* what the nothrow-move rehash_internal must leave of m's overflow list in r
overflow_list_kept(m, r) == r.overflow = m.overflow
overflow_not_in_buckets(m, r) ==
    \A n \in 1..Len(m.overflow) : \A j \in occupied_buckets(r) :
        r.buckets[j].kv[1] # m.overflow[n][1]
overflow_homes_flagged(m, r) ==
    \A n \in 1..Len(m.overflow) :
        has_overflow(r.buckets[bucket_for_hash(r, Hash(m.overflow[n][1]))])
overflow_carried_over(m, r) ==
    /\ overflow_list_kept(m, r)
    /\ overflow_not_in_buckets(m, r)
    /\ overflow_homes_flagged(m, r)
    /\ overflow_flags_consistent(r)

\* C32 (the overflow list in the nothrow-move rehash): from every reachable
\* state of a map whose value_type is nothrow-move-constructible and for
\* every argument, the table rehash leaves has as its overflow list the
\* entries of the old overflow list in the same order, holds none of them in
\* a bucket, has the overflow flag set at the home of each of them under the
\* new bucket count, and has an overflow flag set only where the list holds
\* an entry of that home.
C32_NothrowRehashKeepsOverflow ==
    nothrow_move =>
        \A cnt \in RequestCounts :
            capped(rehash(This, cnt)) \/ overflow_carried_over(This, rehash(This, cnt))

\* ----------------------------------- the assertions of the insertion path
\* what insert_internal has when it comes to
\* will_neighborhood_change_on_rehash(i) in m, for a key of home i: the
\* do-while loop ended with the empty bucket NeighborhoodSize or more after
\* i.  Every bucket that loop of will_neighborhood_change_on_rehash can reach
\* is occupied, and every call of swap_empty_bucket_closer had
\* ibucket_empty_in_out >= NeighborhoodSize.
insert_asserts_hold(m, i) ==
    LET e0 == find_empty_bucket(m, i)
    IN e0 < size(m) =>
          /\ \A e \in hop_calls(m, e0, i) : e >= NeighborhoodSize
          /\ ~hop_loop(m, e0, i).ok =>
                \A ibucket \in i..(size(m) - 1) :
                    ibucket - i < NeighborhoodSize
                        => ~is_empty(hop_loop(m, e0, i).m.buckets[ibucket])

\* C33 (the assertions of the insertion path): in every reachable state, and
\* in the table insert grows to first when the load threshold is met, an
\* insertion for any home i that comes to the overflow-or-rehash check finds
\* every bucket of [i, i + NeighborhoodSize) inside the array occupied, and
\* every call of swap_empty_bucket_closer gets an empty bucket at index
\* NeighborhoodSize or more; no operation has failed the assertion
\* !is_empty() of will_neighborhood_change_on_rehash.
C33_InsertAssertionsHold ==
    /\ "assert_not_empty" \notin last.failed
    /\ \A k \in AllKeys : insert_asserts_hold(This, bucket_for_hash(This, Hash(k)))
    /\ LET grown == rehash_internal(This, get_expand_size(This))
       IN stopped(grown)
          \/ \A k \in AllKeys : insert_asserts_hold(grown, bucket_for_hash(grown, Hash(k)))

\* an insert came to the check, was told that a rehash changes no home of the
\* neighborhood, and put its pair at the end of the overflow list
C33_InsertWentToOverflow ==
    /\ last.op = "insert"
    /\ last.ret = 1
    /\ m_overflow_elements # <<>>
    /\ m_overflow_elements[Len(m_overflow_elements)][1] = last.key
    /\ \A j \in neighborhood_range(This, bucket_for_hash(This, Hash(last.key))) :
          ~is_empty(m_buckets[j])

====
